---- MODULE Spec2Model ----
(***************************************************************************)
(* Attendance subsystem of the Aurora school backend: the staff day-record *)
(* upsert, the student create-once record, and the staff deletion cascade, *)
(* over a table store that keeps each written value as it was written.     *)
(*                                                                         *)
(* Spec, SpecStudent         : every handler runs to completion before the *)
(*                             next one starts.                            *)
(* SpecStaffConc, SpecStudentConc : handlers suspend at every store round  *)
(*                             trip and interleave.                        *)
(***************************************************************************)
EXTENDS Integers, Sequences, FiniteSets, TLC

\* ---------------------------------------------------------------- bounds
MaxRequests == 2      \* requests of an interleaved run, all may overlap
MaxSeedLen  == 1      \* longest status collection of a seeded day record
MaxFailRows == 3      \* rows admitted to StudentAttendances when calls may fail

\* ------------------------------------------------------------ input sets
StaffIds         == {"S1", "S2"}
AdmissionNumbers == {"A1", "A2"}
Dates            == {"2024-03-04", "2024-03-09"}   \* a Monday, a Saturday
Statuses         == {"present", "absent"}
Missing          == ""                    \* an absent (falsy) body field
Slots            == 1 .. MaxRequests

\* ------------------------------------------------------------ JS values
Undefined == "undefined"
NoRow     == [id |-> 0]                   \* data: null of a store reply

Falsy(v) == v = Missing

\* a staffStatus column value: the JS kind it is read back with, and the
\* collection it denotes (for a string: what JSON.parse returns)
ArrayValue(seq)  == [kind |-> "array", val |-> seq]
Entry(staffId, status) == [id |-> staffId, status |-> status]

\* property read on an entry object: undefined when the field is absent
Prop(e, name) == IF name \in DOMAIN e THEN e[name] ELSE Undefined

\* JSON.stringify(array): the value written is a string
JSONStringify(seq) == [kind |-> "string", val |-> seq]

\* Array.isArray(v)
IsArray(v) == v.kind = "array"

\* v || []
OrEmptyArray(v) == IF v.kind = "null" THEN ArrayValue(<<>>) ELSE v

\* the collection a stored value denotes once a reader has parsed it
Parsed(v) == IF v.kind \in {"array", "string"} THEN v.val ELSE <<>>

\* seq.findIndex(entry => entry.id === staffId), 0 for JS's -1
FindIndex(seq, staffId) ==
  IF \E i \in 1 .. Len(seq) : seq[i].id = staffId
  THEN CHOOSE i \in 1 .. Len(seq) :
         /\ seq[i].id = staffId
         /\ \A j \in 1 .. (i - 1) : seq[j].id # staffId
  ELSE 0

RECURSIVE FilterSeq(_, _)
\* seq.filter(entry => entry.staffId !== staffId)
FilterSeq(seq, staffId) ==
  IF seq = <<>> THEN <<>>
  ELSE LET rest == FilterSeq(Tail(seq), staffId)
       IN IF Prop(Head(seq), "staffId") # staffId
          THEN <<Head(seq)>> \o rest ELSE rest

\* .single(): the row when exactly one matches, else data null (PGRST116)
Single(rows) == IF Cardinality(rows) = 1 THEN CHOOSE r \in rows : TRUE ELSE NoRow

\* ------------------------------------------------------------- variables
VARIABLES
  staffAtt,       \* StaffAttendances: set of [id, date, staffStatus]
  nextStaffAttId, \* next serial id of StaffAttendances
  studAtt,        \* StudentAttendances: set of [id, admissionNumber, date, status]
  nextStudAttId,  \* next serial id of StudentAttendances
  students,       \* Students directory: set of admission numbers
  staffs,         \* Staffs directory: set of staff ids
  last,           \* request served last and its response (Spec)
  reqs,           \* suspended / answered handlers by slot (SpecConc)
  results,        \* Results: set of [id, admissionNumber, subjects]
  users,          \* Users: set of [email, password]
  otps,           \* OTP: set of [id, email, otp, expiresAt]
  exams,          \* ExamData: set of [class, exams]
  clock           \* the server's time, in minutes

vars == <<staffAtt, nextStaffAttId, studAtt, nextStudAttId, students, staffs,
          last, reqs, results, users, otps, exams, clock>>

\* the tables and the clock outside the attendance routes
portal == <<results, users, otps, exams, clock>>

store == <<staffAtt, nextStaffAttId, studAtt, nextStudAttId, students, staffs>>

\* a handler activation: its inputs, its position, its locals, its answer
Req(op, subj, date, status, pc, http) ==
  [op |-> op, subj |-> subj, date |-> date, status |-> status, pc |-> pc,
   existingRecord |-> NoRow, payload |-> ArrayValue(<<>>), http |-> http,
   msg |-> IF http = 400 THEN "required" ELSE "", calls |-> 0]

Idle == Req("none", Missing, Missing, Missing, "idle", 0)

\* the handler answers: res.status(http).json({message})
Answer(r, http, msg) == [r EXCEPT !.pc = "done", !.http = http, !.msg = msg]

\* what is left of a handler once it has returned: the request and its answer
Reply(r) == [op |-> r.op, subj |-> r.subj, date |-> r.date, status |-> r.status,
             http |-> r.http, msg |-> r.msg, calls |-> r.calls]

\* ------------------------------------------------------- seeded contents
\* status collections with at most one entry per staff member
RECURSIVE EntrySeqs(_)
EntrySeqs(n) ==
  IF n = 0 THEN {<<>>}
  ELSE LET shorter == EntrySeqs(n - 1)
       IN shorter \cup
          {Append(s, Entry(i, st)) :
             s \in {t \in shorter : Len(t) = n - 1},
             i \in StaffIds, st \in Statuses}

NoDuplicate(seq) ==
  \A i, j \in 1 .. Len(seq) : seq[i].id = seq[j].id => i = j

SeedCollections == {s \in EntrySeqs(MaxSeedLen) : NoDuplicate(s)}

\* the table is empty, or holds a default day record that seedDatabase
\* inserted as a plain array
SeedStaffAttendance ==
  {{}} \cup
  {{[id |-> 1, date |-> d, staffStatus |-> ArrayValue(s)]} :
     d \in Dates, s \in SeedCollections}

\* registered e-mail addresses, and one that is not registered
Emails == {"a@school", "b@school"}

\* bcrypt.hash(password, 10): what Users.password holds
BcryptHash(password) == [bcrypt |-> password]

\* the tables outside the attendance routes when the server starts
InitPortal ==
  /\ results = {}
  /\ users = {[email |-> e, password |-> BcryptHash("initial")] : e \in Emails}
  /\ otps = {}
  /\ exams = {}
  /\ clock = 0

Init ==
  /\ InitPortal
  /\ staffAtt \in SeedStaffAttendance
  /\ nextStaffAttId = Cardinality(staffAtt) + 1
  /\ studAtt = {}
  /\ nextStudAttId = 1
  /\ students = {"A1"}
  /\ staffs = StaffIds
  /\ last = Reply(Idle)
  /\ reqs = [s \in Slots |-> Idle]

\* ---------------------------------------------- POST /staff-attendance/:staffId
\* variant: only the date is validated
StaffPostBeginDateOnly(staffId, date, status) ==
  IF Falsy(date)
  THEN Req("staffPost", staffId, date, status, "done", 400)
  ELSE Req("staffPost", staffId, date, status, "find", 0)

\* up to the first await: the body is validated
StaffPostBegin(staffId, date, status) ==
  IF Falsy(date) \/ Falsy(status)
  THEN Req("staffPost", staffId, date, status, "done", 400)
  ELSE Req("staffPost", staffId, date, status, "find", 0)

\* variant: the entry is pushed without looking for an existing one
MergeStatusPush(seq, staffId, status) == Append(seq, Entry(staffId, status))

\* updatedStatuses after the overwrite-or-push
MergeStatus(seq, staffId, status) ==
  LET index == FindIndex(seq, staffId)
  IN IF index # 0
     THEN [seq EXCEPT ![index] = [@ EXCEPT !.status = status]]
     ELSE Append(seq, Entry(staffId, status))

\* the lookup by date returns; the handler runs on to its write, or throws
StaffPostFind(r, table) ==
  LET existingRecord == Single({row \in table : row.date = r.date})
      called == [r EXCEPT !.calls = @ + 1, !.existingRecord = existingRecord]
  IN IF existingRecord = NoRow
     THEN [called EXCEPT !.pc = "insert",
                         !.payload = JSONStringify(<<Entry(r.subj, r.status)>>)]
     ELSE LET updatedStatuses == OrEmptyArray(existingRecord.staffStatus)
          IN IF ~IsArray(updatedStatuses)
             THEN \* TypeError: updatedStatuses.findIndex is not a function
                  Answer(called, 500, "error")
             ELSE [called EXCEPT
                     !.pc = "update",
                     !.payload = JSONStringify(
                        MergeStatus(updatedStatuses.val, r.subj, r.status))]

\* variant: the update merges the request's entry into the row as it is now
StaffPostWriteMerge(r, table, nextId) ==
  IF r.pc = "insert"
  THEN table \cup {[id |-> nextId, date |-> r.date, staffStatus |-> r.payload]}
  ELSE {IF row.id = r.existingRecord.id
        THEN [row EXCEPT !.staffStatus =
                JSONStringify(MergeStatus(Parsed(@), r.subj, r.status))]
        ELSE row : row \in table}

\* the insert or the update reaches the table
StaffPostWrite(r, table, nextId) ==
  IF r.pc = "insert"
  THEN table \cup {[id |-> nextId, date |-> r.date, staffStatus |-> r.payload]}
  ELSE {IF row.id = r.existingRecord.id
        THEN [row EXCEPT !.staffStatus = r.payload] ELSE row : row \in table}

\* variant: every successful write is answered as an update
StaffPostRespondUpdated(r) == Answer([r EXCEPT !.calls = @ + 1], 200, "updated")

\* the write returned without error: 201 after an insert, 200 after an update
StaffPostRespond(r) ==
  IF r.pc = "insert"
  THEN Answer([r EXCEPT !.calls = @ + 1], 201, "created")
  ELSE Answer([r EXCEPT !.calls = @ + 1], 200, "updated")

\* variant: the update replaces the day record by a newly inserted one
MarkStaffAttendanceReinsert(staffId, date, status) ==
  LET r0 == StaffPostBegin(staffId, date, status)
      r1 == IF r0.pc = "find" THEN StaffPostFind(r0, staffAtt) ELSE r0
      writes == r1.pc \in {"insert", "update"}
  IN /\ staffAtt' =
          IF writes
          THEN {row \in staffAtt : row.id # r1.existingRecord.id}
               \cup {[id |-> nextStaffAttId, date |-> r1.date,
                       staffStatus |-> r1.payload]}
          ELSE staffAtt
     /\ nextStaffAttId' = IF writes THEN nextStaffAttId + 1 ELSE nextStaffAttId
     /\ last' = Reply(IF writes THEN StaffPostRespond(r1) ELSE r1)
     /\ UNCHANGED <<portal, studAtt, nextStudAttId, students, staffs, reqs>>

\* the whole handler, no other request in between
MarkStaffAttendance(staffId, date, status) ==
  LET r0 == StaffPostBegin(staffId, date, status)
      r1 == IF r0.pc = "find" THEN StaffPostFind(r0, staffAtt) ELSE r0
      writes == r1.pc \in {"insert", "update"}
  IN /\ staffAtt' = IF writes THEN StaffPostWrite(r1, staffAtt, nextStaffAttId)
                    ELSE staffAtt
     /\ nextStaffAttId' = IF r1.pc = "insert" THEN nextStaffAttId + 1
                          ELSE nextStaffAttId
     /\ last' = Reply(IF writes THEN StaffPostRespond(r1) ELSE r1)
     /\ UNCHANGED <<portal, studAtt, nextStudAttId, students, staffs, reqs>>

\* --------------------------------------------------- POST /student-attendance
StudentPostBegin(admissionNumber, date, status) ==
  IF Falsy(admissionNumber) \/ Falsy(date) \/ Falsy(status)
  THEN Req("studentPost", admissionNumber, date, status, "done", 400)
  ELSE Req("studentPost", admissionNumber, date, status, "findStudent", 0)

\* variant: the lookup's outcome is not checked
StudentPostFindStudentUnchecked(r, directory) ==
  [r EXCEPT !.calls = @ + 1, !.pc = "check"]

\* the Students lookup returns
StudentPostFindStudent(r, directory) ==
  LET student == Single({[admissionNumber |-> a] : a \in directory \cap {r.subj}})
      called == [r EXCEPT !.calls = @ + 1]
  IN IF student = NoRow
     THEN Answer(called, 404, "Student not found")
     ELSE [called EXCEPT !.pc = "check"]

\* variant: the duplicate check is skipped
StudentPostCheckSkipped(r, table) == [r EXCEPT !.calls = @ + 1, !.pc = "insert"]

\* the lookup of a row for (admissionNumber, date) returns
StudentPostCheck(r, table) ==
  LET existing == Single({row \in table : /\ row.admissionNumber = r.subj
                                          /\ row.date = r.date})
      called == [r EXCEPT !.calls = @ + 1, !.existingRecord = existing]
  IN IF existing # NoRow
     THEN Answer(called, 400, "already marked")
     ELSE [called EXCEPT !.pc = "insert"]

\* variant: the insert replaces the student's earlier rows
StudentPostWriteUpsert(r, table, nextId) ==
  {row \in table : row.admissionNumber # r.subj}
  \cup {[id |-> nextId, admissionNumber |-> r.subj, date |-> r.date,
          status |-> r.status]}

\* supabase.from("StudentAttendances").insert([...])
StudentPostWrite(r, table, nextId) ==
  table \cup {[id |-> nextId, admissionNumber |-> r.subj, date |-> r.date,
               status |-> r.status]}

StudentPostRespond(r) == Answer([r EXCEPT !.calls = @ + 1], 201, "created")

MarkStudentAttendance(admissionNumber, date, status) ==
  LET r0 == StudentPostBegin(admissionNumber, date, status)
      r1 == IF r0.pc = "findStudent" THEN StudentPostFindStudent(r0, students)
            ELSE r0
      r2 == IF r1.pc = "check" THEN StudentPostCheck(r1, studAtt) ELSE r1
      writes == r2.pc = "insert"
  IN /\ studAtt' = IF writes THEN StudentPostWrite(r2, studAtt, nextStudAttId)
                   ELSE studAtt
     /\ nextStudAttId' = IF writes THEN nextStudAttId + 1 ELSE nextStudAttId
     /\ last' = Reply(IF writes THEN StudentPostRespond(r2) ELSE r2)
     /\ UNCHANGED <<portal, staffAtt, nextStaffAttId, students, staffs, reqs>>

\* ------------------------------------------------------ DELETE /staff/:staffId
\* the pruning loop over the fetched day records
PruneStaff(table, staffId) ==
  {IF IsArray(record.staffStatus)
   THEN LET updatedStatus == FilterSeq(record.staffStatus.val, staffId)
        IN IF Len(updatedStatus) # Len(record.staffStatus.val)
           THEN [record EXCEPT !.staffStatus = ArrayValue(updatedStatus)]
           ELSE record
   ELSE record : record \in table}

DeleteStaff(staffId) ==
  LET r0 == Req("staffDelete", staffId, Missing, Missing, "find", 0)
  IN IF staffId \notin staffs
     THEN /\ last' = Reply(Answer([r0 EXCEPT !.calls = 1], 404, "not found"))
          /\ UNCHANGED <<portal, store, reqs>>
     ELSE /\ staffAtt' = PruneStaff(staffAtt, staffId)
          /\ staffs' = staffs \ {staffId}
          /\ last' = Reply(Answer([r0 EXCEPT !.calls = 4], 200, "deleted"))
          /\ UNCHANGED <<portal, nextStaffAttId, studAtt, nextStudAttId, students, reqs>>

\* ------------------------------------------------------------------- Spec
\* staff attendance and the staff directory, one request at a time
Next ==
  \/ \E staffId \in StaffIds, date \in Dates \cup {Missing},
        status \in Statuses \cup {Missing} :
        MarkStaffAttendance(staffId, date, status)
  \/ \E staffId \in StaffIds : DeleteStaff(staffId)

Spec == Init /\ [][Next]_vars

\* the tables as created, before any default data is loaded
InitEmpty == Init /\ staffAtt = {}

\* student attendance, one request at a time
NextStudent ==
  \E admissionNumber \in AdmissionNumbers \cup {Missing},
     date \in Dates \cup {Missing}, status \in Statuses \cup {Missing} :
     MarkStudentAttendance(admissionNumber, date, status)

SpecStudent == InitEmpty /\ [][NextStudent]_vars

\* both mark handlers on the tables they create, one request at a time
NextMark ==
  \/ \E staffId \in StaffIds, date \in Dates \cup {Missing},
        status \in Statuses \cup {Missing} :
        MarkStaffAttendance(staffId, date, status)
  \/ \E admissionNumber \in AdmissionNumbers \cup {Missing},
        date \in Dates \cup {Missing}, status \in Statuses \cup {Missing} :
        MarkStudentAttendance(admissionNumber, date, status)

SpecMark == InitEmpty /\ [][NextMark]_vars

\* --------------------------------------------- interleaved store round trips
Free(s) == reqs[s].pc = "idle"

\* a request arrives and runs to its first await
StaffBeginStep(s, staffId, date, status) ==
  /\ Free(s)
  /\ reqs' = [reqs EXCEPT ![s] = StaffPostBegin(staffId, date, status)]
  /\ UNCHANGED <<portal, store, last>>

\* the store answers the lookup
StaffFindStep(s) ==
  /\ reqs[s].pc = "find"
  /\ reqs[s].op = "staffPost"
  /\ reqs' = [reqs EXCEPT ![s] = StaffPostFind(reqs[s], staffAtt)]
  /\ UNCHANGED <<portal, store, last>>

\* the store applies the write and the handler answers
StaffWriteStep(s) ==
  /\ reqs[s].pc \in {"insert", "update"}
  /\ reqs[s].op = "staffPost"
  /\ staffAtt' = StaffPostWrite(reqs[s], staffAtt, nextStaffAttId)
  /\ nextStaffAttId' = IF reqs[s].pc = "insert" THEN nextStaffAttId + 1
                       ELSE nextStaffAttId
  /\ reqs' = [reqs EXCEPT ![s] = StaffPostRespond(reqs[s])]
  /\ UNCHANGED <<portal, studAtt, nextStudAttId, students, staffs, last>>

NextStaffConc ==
  \E s \in Slots :
    \/ \E staffId \in StaffIds, date \in Dates \cup {Missing},
          status \in Statuses \cup {Missing} :
          StaffBeginStep(s, staffId, date, status)
    \/ StaffFindStep(s)
    \/ StaffWriteStep(s)

SpecStaffConc == Init /\ [][NextStaffConc]_vars

StudentBeginStep(s, admissionNumber, date, status) ==
  /\ Free(s)
  /\ reqs' = [reqs EXCEPT ![s] = StudentPostBegin(admissionNumber, date, status)]
  /\ UNCHANGED <<portal, store, last>>

StudentFindStudentStep(s) ==
  /\ reqs[s].pc = "findStudent"
  /\ reqs' = [reqs EXCEPT ![s] = StudentPostFindStudent(reqs[s], students)]
  /\ UNCHANGED <<portal, store, last>>

StudentCheckStep(s) ==
  /\ reqs[s].pc = "check"
  /\ reqs' = [reqs EXCEPT ![s] = StudentPostCheck(reqs[s], studAtt)]
  /\ UNCHANGED <<portal, store, last>>

StudentWriteStep(s) ==
  /\ reqs[s].pc = "insert"
  /\ reqs[s].op = "studentPost"
  /\ studAtt' = StudentPostWrite(reqs[s], studAtt, nextStudAttId)
  /\ nextStudAttId' = nextStudAttId + 1
  /\ reqs' = [reqs EXCEPT ![s] = StudentPostRespond(reqs[s])]
  /\ UNCHANGED <<portal, staffAtt, nextStaffAttId, students, staffs, last>>

NextStudentConc ==
  \E s \in Slots :
    \/ \E admissionNumber \in AdmissionNumbers \cup {Missing},
          date \in Dates \cup {Missing}, status \in Statuses \cup {Missing} :
          StudentBeginStep(s, admissionNumber, date, status)
    \/ StudentFindStudentStep(s)
    \/ StudentCheckStep(s)
    \/ StudentWriteStep(s)

SpecStudentConc == InitEmpty /\ [][NextStudentConc]_vars

\* ------------------------------------------- store calls that may fail
\* error.message of a failed store call
StoreMessage == "store failure"

\* catch (error): res.status(500).json({ error: error.message })
Thrown(r, message) == Answer(r, 500, message)

\* the lookup returns: an error other than PGRST116 is thrown
StaffPostFindReturned(r, table, findError) ==
  IF findError
  THEN Thrown([r EXCEPT !.calls = @ + 1], StoreMessage)
  ELSE StaffPostFind(r, table)

\* variant: the write's error is not looked at
StaffPostWriteReturnedIgnored(r, writeError) == StaffPostRespond(r)

\* the insert or update returns: its error is thrown
StaffPostWriteReturned(r, writeError) ==
  IF writeError
  THEN Thrown([r EXCEPT !.calls = @ + 1], StoreMessage)
  ELSE StaffPostRespond(r)

\* the whole handler over a store whose calls may fail; a failed write
\* leaves the table as it was
MarkStaffAttendanceStore(staffId, date, status, findError, writeError) ==
  LET r0 == StaffPostBegin(staffId, date, status)
      r1 == IF r0.pc = "find" THEN StaffPostFindReturned(r0, staffAtt, findError)
            ELSE r0
      writes == r1.pc \in {"insert", "update"}
      r2 == IF writes THEN StaffPostWriteReturned(r1, writeError) ELSE r1
      failed == IF r0.pc = "find" /\ findError THEN "find"
                ELSE IF writes /\ writeError THEN "write" ELSE "none"
  IN /\ staffAtt' = IF writes /\ ~writeError
                    THEN StaffPostWrite(r1, staffAtt, nextStaffAttId)
                    ELSE staffAtt
     /\ nextStaffAttId' = IF r1.pc = "insert" /\ ~writeError
                          THEN nextStaffAttId + 1 ELSE nextStaffAttId
     /\ last' = Reply(r2) @@ [failed |-> failed]
     /\ UNCHANGED <<portal, studAtt, nextStudAttId, students, staffs, reqs>>

NextStaffStore ==
  \E staffId \in StaffIds, date \in Dates \cup {Missing},
     status \in Statuses \cup {Missing}, findError, writeError \in BOOLEAN :
     MarkStaffAttendanceStore(staffId, date, status, findError, writeError)

SpecStaffStore == Init /\ [][NextStaffStore]_vars

\* the Students lookup returns: an error is answered like a missing student
StudentPostFindStudentReturned(r, directory, studentError) ==
  IF studentError
  THEN Answer([r EXCEPT !.calls = @ + 1], 404, "Student not found")
  ELSE StudentPostFindStudent(r, directory)

\* the duplicate lookup returns: checkError is never read, data is null
StudentPostCheckReturned(r, table, checkError) ==
  IF checkError
  THEN [r EXCEPT !.calls = @ + 1, !.pc = "insert"]
  ELSE StudentPostCheck(r, table)

\* the insert returns: its error is thrown
StudentPostWriteReturned(r, insertError) ==
  IF insertError
  THEN Thrown([r EXCEPT !.calls = @ + 1], StoreMessage)
  ELSE StudentPostRespond(r)

\* the whole handler over a store whose calls may fail
MarkStudentAttendanceStore(admissionNumber, date, status, studentError, checkError, insertError) ==
  LET r0 == StudentPostBegin(admissionNumber, date, status)
      r1 == IF r0.pc = "findStudent"
            THEN StudentPostFindStudentReturned(r0, students, studentError)
            ELSE r0
      r2 == IF r1.pc = "check"
            THEN StudentPostCheckReturned(r1, studAtt, checkError) ELSE r1
      writes == r2.pc = "insert"
      r3 == IF writes THEN StudentPostWriteReturned(r2, insertError) ELSE r2
      failed == IF r0.pc = "findStudent" /\ studentError THEN "student"
                ELSE IF r1.pc = "check" /\ checkError THEN "check"
                ELSE IF writes /\ insertError THEN "insert" ELSE "none"
  IN /\ nextStudAttId <= MaxFailRows
     /\ studAtt' = IF writes /\ ~insertError
                   THEN StudentPostWrite(r2, studAtt, nextStudAttId)
                   ELSE studAtt
     /\ nextStudAttId' = IF writes /\ ~insertError THEN nextStudAttId + 1
                         ELSE nextStudAttId
     /\ last' = Reply(r3) @@ [failed |-> failed]
     /\ UNCHANGED <<portal, staffAtt, nextStaffAttId, students, staffs, reqs>>

NextStudentStore ==
  \E admissionNumber \in AdmissionNumbers \cup {Missing},
     date \in Dates \cup {Missing}, status \in Statuses \cup {Missing},
     studentError, checkError, insertError \in BOOLEAN :
     MarkStudentAttendanceStore(admissionNumber, date, status,
                                studentError, checkError, insertError)

SpecStudentStore == InitEmpty /\ [][NextStudentStore]_vars

\* staff attendance and the staff directory on tables that hold only what
\* the handlers wrote
SpecStaffEmpty == InitEmpty /\ [][Next]_vars

\* ------------------------------------------------------------ dates, clock
\* the dates the aggregators are run on, with their day of March 2024
RateDates == {"2024-03-04", "2024-03-09", "2024-03-11"}

DayNumber == [d \in RateDates |->
                CASE d = "2024-03-04" -> 4
                  [] d = "2024-03-09" -> 9
                  [] d = "2024-03-11" -> 11]

\* new Date(date): midnight of the day, in half days
Timestamp(date) == 2 * DayNumber[date]

\* new Date(date).getDay(): 0 is Sunday (3 March 2024 is a Sunday)
GetDay(date) == (DayNumber[date] + 4) % 7

\* new Date() when a summary is computed, in half days: 10 March 2024
\* at 00:00, or 11 March 2024 at 12:00
Nows == {20, 23}

\* oneWeekAgo.setDate(oneWeekAgo.getDate() - 7)
OneWeekAgo(now) == now - 14

\* 10^digits for the digits toFixed is called with (0 or 2)
Scale(digits) == IF digits = 0 THEN 1 ELSE 100

\* `${x.toFixed(digits)}%` for x = 100 * num / den: the percentage scaled
\* by 10^digits and rounded to the nearest integer
ToFixed(num, den, digits) ==
  [value |-> (2 * 100 * Scale(digits) * num + den) \div (2 * den),
   digits |-> digits]

\* variant: a rate over no day is 100%
PercentFull(num, den, digits) ==
  IF den > 0 THEN ToFixed(num, den, digits) ELSE ToFixed(1, 1, digits)

\* den > 0 ? (num / den) * 100 : 0, formatted
Percent(num, den, digits) ==
  IF den > 0 THEN ToFixed(num, den, digits) ELSE ToFixed(0, 1, digits)

\* ------------------------------------------------------- student summaries
\* variant: absent days are counted among the records of the last week
CalculateRatesWeeklyAbsent(records, now) ==
  LET totalDays == Cardinality(records)
      presentDays == Cardinality({r \in records : r.status = "present"})
      weeklyRecords == {r \in records : Timestamp(r.date) >= OneWeekAgo(now)}
      weeklyPresent == Cardinality({r \in weeklyRecords : r.status = "present"})
  IN [totalDays |-> totalDays,
      presentDays |-> presentDays,
      absentDays |-> Cardinality({r \in weeklyRecords : r.status = "absent"}),
      weeklyAttendanceRate |-> Percent(weeklyPresent, Cardinality(weeklyRecords), 0),
      overallAttendanceRate |-> Percent(presentDays, totalDays, 0)]

\* calculateRates(records)
CalculateRates(records, now) ==
  LET totalDays == Cardinality(records)
      presentDays == Cardinality({r \in records : r.status = "present"})
      absentDays == Cardinality({r \in records : r.status = "absent"})
      weeklyRecords == {r \in records : Timestamp(r.date) >= OneWeekAgo(now)}
      weeklyPresent == Cardinality({r \in weeklyRecords : r.status = "present"})
  IN [totalDays |-> totalDays,
      presentDays |-> presentDays,
      absentDays |-> absentDays,
      weeklyAttendanceRate |-> Percent(weeklyPresent, Cardinality(weeklyRecords), 0),
      overallAttendanceRate |-> Percent(presentDays, totalDays, 0)]

\* GET /student-attendance/:admissionNumber
GetStudentAttendanceSummary(admissionNumber, now) ==
  LET r0 == Req("studentGet", admissionNumber, Missing, Missing, "select", 0)
      attendanceRecords == {r \in studAtt : r.admissionNumber = admissionNumber}
  IN /\ last' =
          IF attendanceRecords = {}
          THEN Reply(Answer([r0 EXCEPT !.calls = 1], 404, "No attendance data"))
          ELSE IF admissionNumber \notin students
          THEN \* .single() on Students reports PGRST116, which is thrown
               Reply(Thrown([r0 EXCEPT !.calls = 2], "PGRST116"))
          ELSE Reply(Answer([r0 EXCEPT !.calls = 2], 200, "summary"))
               @@ [now |-> now,
                   rates |-> CalculateRates(attendanceRecords, now),
                   attendanceRecords |-> attendanceRecords]
     /\ UNCHANGED <<portal, store, reqs>>

\* GET /student-attendance: one summary per student of the directory
GetAllStudentsAttendance(now) ==
  LET r0 == Req("studentGetAll", Missing, Missing, Missing, "select", 0)
  IN /\ last' = Reply(Answer([r0 EXCEPT !.calls = 2], 200, "summaries"))
                @@ [now |-> now,
                    studentsAttendance |->
                      [a \in students |->
                         CalculateRates({r \in studAtt : r.admissionNumber = a},
                                        now)]]
     /\ UNCHANGED <<portal, store, reqs>>

\* ------------------------------------------ POST, DELETE /students
\* POST /students: admissionNumber is the primary key of Students
AddStudent(admissionNumber) ==
  LET r0 == Req("studentAdd", admissionNumber, Missing, Missing, "insert", 0)
  IN IF admissionNumber \in students
     THEN /\ last' = Reply(Answer([r0 EXCEPT !.calls = 1], 400, "insert failed"))
          /\ UNCHANGED <<portal, store, reqs>>
     ELSE /\ students' = students \cup {admissionNumber}
          /\ last' = Reply(Answer([r0 EXCEPT !.calls = 1], 201, "added"))
          /\ UNCHANGED <<portal, staffAtt, nextStaffAttId, studAtt, nextStudAttId,
                         staffs, reqs>>

\* the table markStudentAttendance and the summaries use
StudentAttendancesTable == "StudentAttendances"

\* the table the deletion cascade names
CascadeTable == "StudentAttendance"

\* supabase.from(name).delete().eq("admissionNumber", admissionNumber): for
\* a relation the store does not have the reply is an error, which the
\* caller does not read
DeleteAttendanceFrom(name, table, admissionNumber) ==
  IF name = StudentAttendancesTable
  THEN {row \in table : row.admissionNumber # admissionNumber}
  ELSE table

\* DELETE /students/:admissionNumber
DeleteStudent(admissionNumber) ==
  LET r0 == Req("studentDelete", admissionNumber, Missing, Missing, "delete", 0)
      data == students \cap {admissionNumber}
  IN /\ results' = {row \in results : row.admissionNumber # admissionNumber}
     /\ studAtt' = DeleteAttendanceFrom(CascadeTable, studAtt, admissionNumber)
     /\ students' = students \ {admissionNumber}
     /\ last' = IF data = {}
                THEN Reply(Answer([r0 EXCEPT !.calls = 3], 404, "Student not found"))
                ELSE Reply(Answer([r0 EXCEPT !.calls = 3], 200, "deleted"))
     /\ UNCHANGED <<users, otps, exams, clock, staffAtt, nextStaffAttId,
                    nextStudAttId, staffs, reqs>>

\* student attendance with its summaries and the student directory
NextStudentLife ==
  \/ \E admissionNumber \in AdmissionNumbers, date \in Dates,
        status \in Statuses :
        MarkStudentAttendance(admissionNumber, date, status)
  \/ \E admissionNumber \in AdmissionNumbers, now \in Nows :
        GetStudentAttendanceSummary(admissionNumber, now)
  \/ \E now \in Nows : GetAllStudentsAttendance(now)
  \/ \E admissionNumber \in AdmissionNumbers : AddStudent(admissionNumber)
  \/ \E admissionNumber \in AdmissionNumbers : DeleteStudent(admissionNumber)

SpecStudentLife == InitEmpty /\ [][NextStudentLife]_vars

\* ---------------------------------------------------------- staff summaries
\* stored staffStatus values that are not a collection of entries
UnparseableString == [kind |-> "garbage", val |-> <<>>]   \* e.g. "oops"
NullValue         == [kind |-> "null", val |-> <<>>]
NonArrayString    == [kind |-> "objectString", val |-> <<>>]   \* e.g. "{}"

\* staffStatus.filter((s) => s.id === staffId)
FilterById(seq, staffId) ==
  LET Matches(s) == s.id = staffId IN SelectSeq(seq, Matches)

\* variant: a serialized collection is read as empty
ParseOrEmptyUnparsed(v) ==
  CASE v.kind = "string"       -> ArrayValue(<<>>)
    [] v.kind = "garbage"      -> ArrayValue(<<>>)
    [] v.kind = "objectString" -> [kind |-> "object", val |-> <<>>]
    [] OTHER                   -> v

\* if (typeof staffStatus === "string") try JSON.parse catch []
ParseOrEmpty(v) ==
  CASE v.kind = "string"       -> ArrayValue(v.val)
    [] v.kind = "garbage"      -> ArrayValue(<<>>)
    [] v.kind = "objectString" -> [kind |-> "object", val |-> <<>>]
    [] OTHER                   -> v

\* staffStatus.find((s) => s.id === staffId) finds an entry
HasEntry(seq, staffId) == FindIndex(seq, staffId) # 0

\* the status of the entry found first
EntryStatus(seq, staffId) == seq[FindIndex(seq, staffId)].status

\* calculateWeeklyAttendanceRate(attendanceRecords, staffId): the two counts
CalculateWeeklyAttendanceRate(attendanceRecords, staffId, now) ==
  LET counted ==
        {record \in attendanceRecords :
           LET staffStatus == ParseOrEmpty(record.staffStatus)
           IN /\ Timestamp(record.date) >= OneWeekAgo(now)
              /\ GetDay(record.date) >= 1
              /\ GetDay(record.date) <= 5
              /\ IsArray(staffStatus)
              /\ HasEntry(staffStatus.val, staffId)}
      present ==
        {record \in counted :
           EntryStatus(ParseOrEmpty(record.staffStatus).val, staffId) = "present"}
  IN [totalDays |-> Cardinality(counted), presentDays |-> Cardinality(present)]

\* GET /staff-attendance/:staffId
GetStaffAttendanceSummary(staffId, expand, now) ==
  LET r0 == Req("staffGet", staffId, Missing, Missing, "select", 0)
      digits == IF expand = "staff" THEN 0 ELSE 2
      totalDays == Cardinality(staffAtt)
      daysPresent ==
        Cardinality({record \in staffAtt :
                       LET staffStatus == ParseOrEmpty(record.staffStatus).val
                       IN /\ HasEntry(staffStatus, staffId)
                          /\ EntryStatus(staffStatus, staffId) = "present"})
      weekly == CalculateWeeklyAttendanceRate(staffAtt, staffId, now)
  IN /\ last' =
          IF staffAtt = {}
          THEN Reply(Answer([r0 EXCEPT !.calls = 1], 404, "No attendance data"))
          ELSE IF \E record \in staffAtt :
                    ~IsArray(ParseOrEmpty(record.staffStatus))
          THEN \* TypeError: staffStatus.filter is not a function
               Reply(Thrown([r0 EXCEPT !.calls = 1], "TypeError"))
          ELSE IF expand = "staff" /\ staffId \notin staffs
          THEN Reply(Thrown([r0 EXCEPT !.calls = 2], "PGRST116"))
          ELSE Reply(Answer([r0 EXCEPT !.calls = IF expand = "staff" THEN 2 ELSE 1],
                            200, "summary"))
               @@ [now |-> now,
                   totalDays |-> totalDays,
                   daysPresent |-> daysPresent,
                   daysAbsent |-> totalDays - daysPresent,
                   attendance |->
                     {[date |-> record.date,
                       staffStatus |->
                         FilterById(ParseOrEmpty(record.staffStatus).val,
                                    staffId)] : record \in staffAtt},
                   weeklyAttendanceRate |->
                     Percent(weekly.presentDays, weekly.totalDays, digits),
                   overallAttendanceRate |->
                     Percent(daysPresent, totalDays, digits)]
     /\ UNCHANGED <<portal, store, reqs>>

\* GET /staff-attendance
GetAllStaffAttendance(expand) ==
  LET r0 == Req("staffGetAll", Missing, Missing, Missing, "select", 0)
  IN /\ last' =
          IF staffAtt = {}
          THEN Reply(Answer([r0 EXCEPT !.calls = 1], 404, "No attendance data"))
          ELSE IF expand # "staff"
          THEN Reply(Answer([r0 EXCEPT !.calls = 1], 200, "attendance"))
          ELSE IF \E record \in staffAtt :
                    ~IsArray(ParseOrEmpty(record.staffStatus))
          THEN \* TypeError: staffStatus.map is not a function
               Reply(Thrown([r0 EXCEPT !.calls = 2], "TypeError"))
          ELSE Reply(Answer([r0 EXCEPT !.calls = 2], 200, "attendance"))
     /\ UNCHANGED <<portal, store, reqs>>

\* ------------------------------------------------- tables to summarise
MaxTableRows == 2

Expands == {Missing, "staff"}

\* a table of day records, one per date, numbered in date order
DayTable(dates, shapeOf) ==
  {[id |-> Cardinality({e \in dates : DayNumber[e] <= DayNumber[d]}),
    date |-> d, staffStatus |-> shapeOf[d]] : d \in dates}

DayTables(shapes) ==
  UNION {{DayTable(dates, shapeOf) : shapeOf \in [dates -> shapes]} :
           dates \in {ds \in SUBSET RateDates : Cardinality(ds) <= MaxTableRows}}

\* what the table holds after seeding and markStaffAttendance calls
WrittenShapes ==
  {ArrayValue(s) : s \in SeedCollections}
  \cup {JSONStringify(s) : s \in SeedCollections}

\* the shapes a status column can hold
StoredShapes ==
  WrittenShapes \cup {UnparseableString, NullValue, NonArrayString}

\* markStudentAttendance stores the status it is given
RateStatuses == Statuses \cup {"late"}

StudentKeys == AdmissionNumbers \X RateDates

\* the order the rows of a table were inserted in
InsertOrder(k) == (IF k[1] = "A1" THEN 0 ELSE 31) + DayNumber[k[2]]

\* a table of student rows, one per (admissionNumber, date)
StudentTable(keys, statusOf) ==
  {[id |-> Cardinality({e \in keys : InsertOrder(e) <= InsertOrder(k)}),
    admissionNumber |-> k[1], date |-> k[2], status |-> statusOf[k]] :
     k \in keys}

StudentTables ==
  UNION {{StudentTable(keys, statusOf) : statusOf \in [keys -> RateStatuses]} :
           keys \in {ks \in SUBSET StudentKeys : Cardinality(ks) <= MaxTableRows}}

\* the summaries over the tables the handlers can have written
InitSummary ==
  /\ InitPortal
  /\ \/ staffAtt \in DayTables(WrittenShapes) /\ studAtt = {}
     \/ staffAtt = {} /\ studAtt \in StudentTables
  /\ nextStaffAttId = Cardinality(staffAtt) + 1
  /\ nextStudAttId = Cardinality(studAtt) + 1
  /\ students = {"A1"}
  /\ staffs = StaffIds
  /\ last = Reply(Idle)
  /\ reqs = [s \in Slots |-> Idle]

NextSummary ==
  \/ \E staffId \in StaffIds, expand \in Expands, now \in Nows :
        GetStaffAttendanceSummary(staffId, expand, now)
  \/ \E expand \in Expands : GetAllStaffAttendance(expand)
  \/ \E admissionNumber \in AdmissionNumbers, now \in Nows :
        GetStudentAttendanceSummary(admissionNumber, now)
  \/ \E now \in Nows : GetAllStudentsAttendance(now)

SpecSummary == InitSummary /\ [][NextSummary]_vars

\* the staff summaries over every shape of the status column
InitShapes ==
  /\ InitPortal
  /\ staffAtt \in DayTables(StoredShapes)
  /\ nextStaffAttId = Cardinality(staffAtt) + 1
  /\ studAtt = {}
  /\ nextStudAttId = 1
  /\ students = {"A1"}
  /\ staffs = StaffIds
  /\ last = Reply(Idle)
  /\ reqs = [s \in Slots |-> Idle]

NextShapes ==
  \/ \E staffId \in StaffIds, expand \in Expands, now \in Nows :
        GetStaffAttendanceSummary(staffId, expand, now)
  \/ \E expand \in Expands : GetAllStaffAttendance(expand)

SpecShapes == InitShapes /\ [][NextShapes]_vars

\* ------------------------------------------ status values of a request body
\* both mark handlers with the status strings a request body can carry
NextStatus ==
  \/ \E staffId \in StaffIds, date \in Dates, status \in RateStatuses :
        MarkStaffAttendance(staffId, date, status)
  \/ \E admissionNumber \in AdmissionNumbers, date \in Dates, status \in RateStatuses :
        MarkStudentAttendance(admissionNumber, date, status)

SpecStatus == InitEmpty /\ [][NextStatus]_vars

\* ------------------------------------------------ marks and their summaries
\* the mark handlers and the summary of one subject, one request at a time
NextFresh ==
  \/ \E staffId \in StaffIds, date \in Dates, status \in Statuses :
        MarkStaffAttendance(staffId, date, status)
  \/ \E staffId \in StaffIds, now \in Nows :
        GetStaffAttendanceSummary(staffId, Missing, now)
  \/ \E date \in Dates, status \in Statuses :
        MarkStudentAttendance("A1", date, status)
  \/ \E now \in Nows : GetStudentAttendanceSummary("A1", now)

SpecFresh == Init /\ [][NextFresh]_vars

\* ----------------------------------------------------------- POST /staff
\* POST /staff with every required field given
AddStaff(staffId) ==
  LET r0 == Req("staffAdd", staffId, Missing, Missing, "find", 0)
  IN IF staffId \in staffs
     THEN /\ last' = Reply(Answer([r0 EXCEPT !.calls = 1], 409, "already exists"))
          /\ UNCHANGED <<portal, store, reqs>>
     ELSE /\ staffs' = staffs \cup {staffId}
          /\ last' = Reply(Answer([r0 EXCEPT !.calls = 3], 201, "added"))
          /\ UNCHANGED <<portal, staffAtt, nextStaffAttId, studAtt, nextStudAttId,
                         students, reqs>>

\* staff attendance with the staff directory growing and shrinking
NextStaffDirectory ==
  \/ \E staffId \in StaffIds, date \in Dates, status \in Statuses :
        MarkStaffAttendance(staffId, date, status)
  \/ \E staffId \in StaffIds : AddStaff(staffId)
  \/ \E staffId \in StaffIds : DeleteStaff(staffId)

SpecStaffDirectory == InitEmpty /\ [][NextStaffDirectory]_vars

\* --------------------------------------------------------- authMiddleware
\* Authorization header values, as the words between single spaces; <<>>
\* is a request without the header
Authorizations ==
  {<<>>, <<"Basic", "valid">>, <<"Bearer">>, <<"Bearer", "">>,
   <<"Bearer", "valid">>, <<"Bearer", "forged">>, <<"Bearer", "expired">>}

\* authHeader.startsWith("Bearer ")
StartsWithBearer(authHeader) == Len(authHeader) >= 2 /\ authHeader[1] = "Bearer"

\* jwt.verify(token, JWT_SECRET) returns instead of throwing
JwtVerify(token) == token = "valid"

\* variant: the token is decoded without being verified
AuthMiddlewareUnverified(authHeader) ==
  LET r0 == Req("auth", Missing, Missing, Missing, "next", 0)
  IN IF ~StartsWithBearer(authHeader)
     THEN Reply(Answer(r0, 401, "token missing or invalid"))
     ELSE Reply(r0)

\* authMiddleware(req, res, next): the answer 401, or http 0 for next()
AuthMiddleware(authHeader) ==
  LET r0 == Req("auth", Missing, Missing, Missing, "next", 0)
  IN IF authHeader = <<>> \/ ~StartsWithBearer(authHeader)
     THEN Reply(Answer(r0, 401, "token missing or invalid"))
     ELSE IF JwtVerify(authHeader[2])
     THEN Reply(r0)
     ELSE Reply(Answer(r0, 401, "invalid or expired token"))

\* a request reaches an attendance router: router.use(authMiddleware)
Authenticate(authHeader) ==
  /\ last' = AuthMiddleware(authHeader) @@ [authorization |-> authHeader]
  /\ UNCHANGED <<portal, store, reqs>>

\* authMiddleware called next(): the route handler runs
Passed == last.op = "auth" /\ last.http = 0

\* the attendance routers behind their middleware
NextAuth ==
  \/ \E authHeader \in Authorizations : Authenticate(authHeader)
  \/ \E staffId \in StaffIds, date \in Dates, status \in Statuses :
        Passed /\ MarkStaffAttendance(staffId, date, status)
  \/ \E staffId \in StaffIds, now \in Nows :
        Passed /\ GetStaffAttendanceSummary(staffId, Missing, now)
  \/ Passed /\ GetAllStaffAttendance(Missing)
  \/ \E date \in Dates, status \in Statuses :
        Passed /\ MarkStudentAttendance("A1", date, status)
  \/ \E now \in Nows : Passed /\ GetStudentAttendanceSummary("A1", now)
  \/ \E now \in Nows : Passed /\ GetAllStudentsAttendance(now)

SpecAuth == InitEmpty /\ [][NextAuth]_vars

\* ------------------------------------------------------------ /results
MaxResults == 2

\* req.user: the payload of the verified token
TokenUsers ==
  [role : {"admin", "staff", "student"},
   admissionNumber : AdmissionNumbers \cup {Undefined}]

\* subject lists of a request body
SubjectLists ==
  {<<>>, <<[name |-> "math", score |-> 72]>>,
   <<[name |-> "math", score |-> 38], [name |-> "english", score |-> 55]>>}

\* calculateGrade(score)
CalculateGrade(score) ==
  IF score >= 70 THEN "A"
  ELSE IF score >= 60 THEN "B"
  ELSE IF score >= 50 THEN "C"
  ELSE IF score >= 45 THEN "D"
  ELSE IF score >= 40 THEN "E"
  ELSE "F"

\* name.charAt(0).toUpperCase() + name.slice(1).toLowerCase()
Capitalize(name) == IF name = "math" THEN "Math" ELSE "English"

RECURSIVE TotalScore(_)
\* subjects.reduce((sum, s) => sum + Number(s.score || 0), 0)
TotalScore(subjects) ==
  IF subjects = <<>> THEN 0
  ELSE Head(subjects).score + TotalScore(Tail(subjects))

\* Math.round((totalScore / maxScore) * 100) || 0
Performance(subjects) ==
  LET maxScore == Len(subjects) * 100
  IN IF maxScore = 0 THEN 0
     ELSE (2 * 100 * TotalScore(subjects) + maxScore) \div (2 * maxScore)

\* POST /results with an admission number and subjects
AddResult(admissionNumber, subjects) ==
  LET r0 == Req("resultPost", admissionNumber, Missing, Missing, "insert", 0)
      formattedSubjects ==
        [i \in 1 .. Len(subjects) |->
           [name |-> Capitalize(subjects[i].name), score |-> subjects[i].score,
            grade |-> CalculateGrade(subjects[i].score)]]
      id == Cardinality(results) + 1
  IN /\ Cardinality(results) < MaxResults
     /\ results' = results \cup {[id |-> id, admissionNumber |-> admissionNumber,
                                  subjects |-> formattedSubjects]}
     /\ last' = Reply(Answer([r0 EXCEPT !.calls = 2], 201, "added"))
                @@ [academicPerformance |-> Performance(formattedSubjects)]
     /\ UNCHANGED <<store, users, otps, exams, clock, reqs>>

\* variant: only the role of the caller is compared
AccessDeniedRoleOnly(user, admissionNumber) == user.role # "student"

\* req.user.role !== "student" || req.user.admissionNumber !== admissionNumber
AccessDenied(user, admissionNumber) ==
  user.role # "student" \/ user.admissionNumber # admissionNumber

\* GET /results/:admissionNumber
GetResult(user, admissionNumber) ==
  LET r0 == Req("resultGet", admissionNumber, Missing, Missing, "select", 0)
      result == Single({row \in results : row.admissionNumber = admissionNumber})
  IN /\ last' =
          (IF AccessDenied(user, admissionNumber)
           THEN Reply(Answer(r0, 403, "Access denied"))
           ELSE IF result = NoRow
           THEN Reply(Answer([r0 EXCEPT !.calls = 1], 404, "Result not found"))
           ELSE Reply(Answer([r0 EXCEPT !.calls = 1], 200, "result"))
                @@ [result |-> result,
                    academicPerformance |-> Performance(result.subjects)])
          @@ [user |-> user]
     /\ UNCHANGED <<store, portal, reqs>>

NextResults ==
  \/ \E admissionNumber \in AdmissionNumbers, subjects \in SubjectLists :
        AddResult(admissionNumber, subjects)
  \/ \E user \in TokenUsers, admissionNumber \in AdmissionNumbers :
        GetResult(user, admissionNumber)

SpecResults == InitEmpty /\ [][NextResults]_vars

\* ------------------------------------- /auth/forgot-password, reset-password
MaxOtps  == 2
MaxClock == 45

\* Date.now() + 30 * 60 * 1000, in minutes
OtpLifetime == 30

\* the minutes that pass between two requests
Ticks == {15, 30}

\* Math.floor(100000 + Math.random() * 900000)
OtpCodes == {111111, 222222}

NewPasswords == {"secret-one", "secret-two"}

\* time passes
Tick(minutes) ==
  /\ clock + minutes <= MaxClock
  /\ clock' = clock + minutes
  /\ UNCHANGED <<store, results, users, otps, exams, last, reqs>>

\* POST /auth/forgot-password; otp is the code drawn, mailFails the
\* outcome of transporter.sendMail
ForgotPassword(email, otp, mailFails) ==
  LET r0 == Req("forgotPassword", email, Missing, Missing, "select", 0)
      user == Single({u \in users : u.email = email})
      \* a row identifier not in use: no handler reads OTP.id
      id == CHOOSE n \in 1 .. Cardinality(otps) + 1 :
              /\ \A row \in otps : row.id # n
              /\ \A m \in 1 .. (n - 1) : \E row \in otps : row.id = m
  IN IF user = NoRow
     THEN /\ last' = Reply(Answer([r0 EXCEPT !.calls = 1], 404, "User not found"))
                     @@ [otp |-> otp]
          /\ UNCHANGED <<store, portal, reqs>>
     ELSE /\ Cardinality(otps) < MaxOtps
          /\ otps' = otps \cup {[id |-> id, email |-> email, otp |-> otp,
                                 expiresAt |-> clock + OtpLifetime]}
          /\ last' = (IF mailFails
                      THEN Reply(Thrown([r0 EXCEPT !.calls = 2], "mail failure"))
                      ELSE Reply(Answer([r0 EXCEPT !.calls = 2], 200, "OTP sent")))
                     @@ [otp |-> otp]
          /\ UNCHANGED <<store, results, users, exams, clock, reqs>>

\* variant: the OTP row is looked up by e-mail address only
OtpLookupByEmail(table, email, otp) ==
  Single({row \in table : row.email = email})

\* from("OTP").select("*").eq("email", email).eq("otp", otp).single()
OtpLookup(table, email, otp) ==
  Single({row \in table : row.email = email /\ row.otp = otp})

\* variant: the OTP rows are kept
OtpDeleteKept(table, email) == table

\* from("OTP").delete().eq("email", email)
OtpDelete(table, email) == {row \in table : row.email # email}

\* from("Users").update({ password: hashedPassword }).eq("email", email)
UsersUpdate(table, email, hashedPassword) ==
  {IF u.email = email THEN [u EXCEPT !.password = hashedPassword] ELSE u :
     u \in table}

\* POST /auth/reset-password
ResetPassword(email, otp, newPassword) ==
  LET r0 == Req("resetPassword", email, Missing, Missing, "select", 0)
      otpRecord == OtpLookup(otps, email, otp)
  IN IF otpRecord = NoRow
     THEN /\ last' = Reply(Answer([r0 EXCEPT !.calls = 1], 400, "Invalid OTP"))
                     @@ [otp |-> otp]
          /\ UNCHANGED <<store, portal, reqs>>
     ELSE IF clock > otpRecord.expiresAt
     THEN /\ last' = Reply(Answer([r0 EXCEPT !.calls = 1], 400, "OTP has expired"))
                     @@ [otp |-> otp]
          /\ UNCHANGED <<store, portal, reqs>>
     ELSE /\ users' = UsersUpdate(users, email, BcryptHash(newPassword))
          /\ otps' = OtpDelete(otps, email)
          /\ last' = Reply(Answer([r0 EXCEPT !.calls = 3], 200, "Password reset"))
                     @@ [otp |-> otp]
          /\ UNCHANGED <<store, results, exams, clock, reqs>>

NextReset ==
  \/ \E minutes \in Ticks : Tick(minutes)
  \/ \E email \in Emails \cup {"c@school"}, otp \in OtpCodes,
        mailFails \in BOOLEAN : ForgotPassword(email, otp, mailFails)
  \/ \E email \in Emails \cup {"c@school"}, otp \in OtpCodes,
        newPassword \in NewPasswords : ResetPassword(email, otp, newPassword)

SpecReset == InitEmpty /\ [][NextReset]_vars

\* ------------------------------------------------------- /exam-timetable
MaxExams == 2

Classes  == {"JSS1", "JSS2"}
Subjects == {"Maths", "English"}
Times    == {"09:00", "14:30", "00:15"}

\* formatTimeWithMeridian(time); "" when it throws "Invalid time format"
FormatTimeWithMeridian(time) ==
  CASE time = "09:00" -> "09:00 AM"
    [] time = "14:30" -> "2:30 PM"
    [] OTHER          -> ""

\* (examData.exams || []).filter((exam) => exam.subject !== subject)
FilterSubject(examList, subject) ==
  LET Other(exam) == exam.subject # subject IN SelectSeq(examList, Other)

\* variant: the update is applied to every record
ExamDataUpdateAll(table, className, updatedExams) ==
  {[row EXCEPT !.exams = updatedExams] : row \in table}

\* from("ExamData").update({ exams }).eq("class", className)
ExamDataUpdate(table, className, updatedExams) ==
  {IF row.class = className THEN [row EXCEPT !.exams = updatedExams] ELSE row :
     row \in table}

\* POST /exam-timetable with every field given
AddExam(className, subject, time) ==
  LET r0 == Req("examPost", className, "2024-03-11", Missing, "select", 0)
      formattedTime == FormatTimeWithMeridian(time)
      existing == Single({row \in exams : row.class = className})
      newExam == [subject |-> subject, date |-> "2024-03-11",
                  time |-> formattedTime, venue |-> "Hall"]
  IN IF formattedTime = ""
     THEN /\ last' = Reply(Thrown(r0, "Invalid time format"))
                     @@ [subject |-> subject]
          /\ UNCHANGED <<store, portal, reqs>>
     ELSE /\ existing # NoRow => Len(existing.exams) < MaxExams
          /\ exams' = IF existing = NoRow
                      THEN exams \cup {[class |-> className, exams |-> <<newExam>>]}
                      ELSE ExamDataUpdate(exams, className,
                                          Append(existing.exams, newExam))
          /\ last' = Reply(Answer([r0 EXCEPT !.calls = 2], 201, "Exam added"))
                     @@ [subject |-> subject]
          /\ UNCHANGED <<store, results, users, otps, clock, reqs>>

\* DELETE /exam-timetable/:class/:subject
DeleteExam(className, subject) ==
  LET r0 == Req("examDelete", className, Missing, Missing, "select", 0)
      examData == Single({row \in exams : row.class = className})
      updatedExams == FilterSubject(examData.exams, subject)
  IN IF examData = NoRow
     THEN /\ last' = Reply(Answer([r0 EXCEPT !.calls = 1], 404, "Class not found"))
                     @@ [subject |-> subject]
          /\ UNCHANGED <<store, portal, reqs>>
     ELSE IF Len(updatedExams) = Len(examData.exams)
     THEN /\ last' = Reply(Answer([r0 EXCEPT !.calls = 1], 404, "Exam not found"))
                     @@ [subject |-> subject]
          /\ UNCHANGED <<store, portal, reqs>>
     ELSE /\ exams' = ExamDataUpdate(exams, className, updatedExams)
          /\ last' = Reply(Answer([r0 EXCEPT !.calls = 2], 200, "Exam removed"))
                     @@ [subject |-> subject]
          /\ UNCHANGED <<store, results, users, otps, clock, reqs>>

NextExams ==
  \/ \E className \in Classes, subject \in Subjects, time \in Times :
        AddExam(className, subject, time)
  \/ \E className \in Classes, subject \in Subjects :
        DeleteExam(className, subject)

SpecExams == InitEmpty /\ [][NextExams]_vars

\* ================================================================= claims

\* C1: markStaffAttendance(staffId, date, status) served when no day record
\* for the date exists answers 201 'created' and adds exactly one day record,
\* for that date, whose statuses are the single entry {staffId, status};
\* every other day record is left as it was.
C1_CreateOnAbsentDate ==
  [][ (/\ last'.op = "staffPost"
       /\ ~Falsy(last'.date) /\ ~Falsy(last'.status)
       /\ \A row \in staffAtt : row.date # last'.date)
      => /\ last'.http = 201
         /\ last'.msg = "created"
         /\ \E new \in staffAtt' :
              /\ new \notin staffAtt
              /\ staffAtt' = staffAtt \cup {new}
              /\ new.date = last'.date
              /\ Parsed(new.staffStatus) = <<Entry(last'.subj, last'.status)>>
    ]_vars

C1_Witness ==
  /\ last.op = "staffPost"
  /\ last.http = 201
  /\ Cardinality(staffAtt) = 2
  /\ \E row \in staffAtt :
       /\ row.date = last.date
       /\ Parsed(row.staffStatus) = <<Entry(last.subj, last.status)>>

\* C2: with one request at a time, markStaffAttendance for a staff member on
\* a date whose only day record holds one entry, of another staff member,
\* answers 200 'updated' and leaves that record with the old entry followed
\* by the new one.
C2_SecondStaffPreserved ==
  [][ \A row \in staffAtt :
        (/\ last'.op = "staffPost"
         /\ ~Falsy(last'.date) /\ ~Falsy(last'.status)
         /\ row.date = last'.date
         /\ \A other \in staffAtt : other.date = row.date => other = row
         /\ Len(Parsed(row.staffStatus)) = 1
         /\ Parsed(row.staffStatus)[1].id # last'.subj)
        => /\ last'.http = 200
           /\ last'.msg = "updated"
           /\ \E after \in staffAtt' :
                /\ after.id = row.id
                /\ after.date = row.date
                /\ Parsed(after.staffStatus) =
                     Append(Parsed(row.staffStatus),
                            Entry(last'.subj, last'.status))
    ]_vars

\* C3: a markStaffAttendance that succeeded, followed at once by another one
\* for the same staff member and date, succeeds again and leaves a day record
\* of that date with exactly one entry for the staff member, carrying the
\* second call's status.
C3_IdempotentOverwrite ==
  [][ (/\ last.op = "staffPost" /\ last.http \in {200, 201}
       /\ last'.op = "staffPost"
       /\ ~Falsy(last'.date) /\ ~Falsy(last'.status)
       /\ last'.subj = last.subj
       /\ last'.date = last.date)
      => /\ last'.http \in {200, 201}
         /\ \E row \in staffAtt' :
              LET statuses == Parsed(row.staffStatus)
              IN /\ row.date = last'.date
                 /\ Cardinality({i \in 1 .. Len(statuses) :
                                   statuses[i].id = last'.subj}) = 1
                 /\ Entry(last'.subj, last'.status) \in
                      {statuses[i] : i \in 1 .. Len(statuses)}
    ]_vars

\* C4: every day record holds at most one entry per staff member, whatever
\* markStaffAttendance and staff deletions have been served.
C4_OneEntryPerStaff ==
  \A row \in staffAtt : NoDuplicate(Parsed(row.staffStatus))

C4_Witness ==
  /\ last.op = "staffPost"
  /\ last.http = 200
  /\ staffs # StaffIds
  /\ \E row \in staffAtt :
       /\ row.date = last.date
       /\ Len(Parsed(row.staffStatus)) >= 2
       /\ Entry(last.subj, last.status) \in
            {Parsed(row.staffStatus)[i] : i \in 1 .. Len(Parsed(row.staffStatus))}

\* C5: under interleaved markStaffAttendance requests the StaffAttendances
\* table holds at most one day record per date.
C5_DateUniqueKey ==
  \A a, b \in staffAtt : a.date = b.date => a = b

\* C6: when two markStaffAttendance requests for different staff members, new
\* to the day record, have both read the same day record and have both
\* answered 200 'updated', the stored record is the whole array one request
\* wrote and holds the entry of only one of the two staff members.
C6_LostUpdate ==
  \A s1, s2 \in Slots :
    (/\ s1 # s2
     /\ reqs[s1].op = "staffPost" /\ reqs[s2].op = "staffPost"
     /\ reqs[s1].http = 200 /\ reqs[s2].http = 200
     /\ reqs[s1].existingRecord = reqs[s2].existingRecord
     /\ reqs[s1].subj # reqs[s2].subj
     /\ FindIndex(Parsed(reqs[s1].existingRecord.staffStatus), reqs[s1].subj) = 0
     /\ FindIndex(Parsed(reqs[s1].existingRecord.staffStatus), reqs[s2].subj) = 0)
    => \E row \in staffAtt :
         /\ row.id = reqs[s1].existingRecord.id
         /\ \E s \in Slots : /\ reqs[s].http = 200
                             /\ reqs[s].existingRecord = reqs[s1].existingRecord
                             /\ row.staffStatus = reqs[s].payload
         /\ ~ (/\ FindIndex(Parsed(row.staffStatus), reqs[s1].subj) # 0
               /\ FindIndex(Parsed(row.staffStatus), reqs[s2].subj) # 0)

C6_Witness ==
  \E s1, s2 \in Slots :
    /\ s1 # s2
    /\ reqs[s1].op = "staffPost" /\ reqs[s2].op = "staffPost"
    /\ reqs[s1].http = 200 /\ reqs[s2].http = 200
    /\ reqs[s1].existingRecord = reqs[s2].existingRecord
    /\ reqs[s1].subj # reqs[s2].subj
    /\ FindIndex(Parsed(reqs[s1].existingRecord.staffStatus), reqs[s1].subj) = 0
    /\ FindIndex(Parsed(reqs[s1].existingRecord.staffStatus), reqs[s2].subj) = 0
    /\ \E row \in staffAtt :
         /\ row.id = reqs[s1].existingRecord.id
         /\ row.staffStatus = reqs[s2].payload
         /\ FindIndex(Parsed(row.staffStatus), reqs[s1].subj) = 0

\* C7: markStudentAttendance for an existing student and a date without a
\* row answers 201 'created' and adds exactly one row; the same
\* (admissionNumber, date) marked again right after answers 400 'already
\* marked', adds nothing, and the row keeps the first call's status.
C7_SecondMarkRejected ==
  [][ (/\ last'.op = "studentPost"
       /\ ~Falsy(last'.subj) /\ ~Falsy(last'.date) /\ ~Falsy(last'.status)
       /\ last'.subj \in students)
      => /\ (\A row \in studAtt : ~ (/\ row.admissionNumber = last'.subj
                                     /\ row.date = last'.date))
            => /\ last'.http = 201
               /\ last'.msg = "created"
               /\ \E new \in studAtt' :
                    /\ new \notin studAtt
                    /\ studAtt' = studAtt \cup {new}
                    /\ new.admissionNumber = last'.subj
                    /\ new.date = last'.date
                    /\ new.status = last'.status
         /\ (/\ last.op = "studentPost" /\ last.http = 201
             /\ last.subj = last'.subj /\ last.date = last'.date)
            => /\ last'.http = 400
               /\ last'.msg = "already marked"
               /\ studAtt' = studAtt
               /\ \A row \in studAtt' :
                    (row.admissionNumber = last.subj /\ row.date = last.date)
                    => row.status = last.status
    ]_vars

C7_Witness ==
  /\ last.op = "studentPost"
  /\ last.http = 400
  /\ last.msg = "already marked"
  /\ Cardinality({row \in studAtt : /\ row.admissionNumber = last.subj
                                    /\ row.date = last.date
                                    /\ row.status # last.status}) = 1

\* C8: under interleaved markStudentAttendance requests the
\* StudentAttendances table holds at most one row per
\* (admissionNumber, date).
C8_OneRowPerStudentDate ==
  \A a, b \in studAtt :
    (a.admissionNumber = b.admissionNumber /\ a.date = b.date) => a = b

\* C9: markStudentAttendance for an admission number absent from the Students
\* directory answers 404 after the directory lookup alone and inserts no
\* row; a row is inserted only as the third store call, after the directory
\* lookup found the student and the duplicate lookup found no row.
C9_NotFoundBeforeInsert ==
  [][ /\ (/\ last'.op = "studentPost"
          /\ ~Falsy(last'.subj) /\ ~Falsy(last'.date) /\ ~Falsy(last'.status)
          /\ last'.subj \notin students)
         => /\ last'.http = 404
            /\ last'.calls = 1
            /\ studAtt' = studAtt
      /\ (last'.op = "studentPost" /\ last'.msg = "already marked")
         => last'.calls = 2 /\ last'.subj \in students
      /\ studAtt' # studAtt
         => /\ last'.op = "studentPost"
            /\ last'.http = 201
            /\ last'.calls = 3
            /\ last'.subj \in students
            /\ \A row \in studAtt : ~ (/\ row.admissionNumber = last'.subj
                                       /\ row.date = last'.date)
    ]_vars

C9_Witness ==
  /\ last.op = "studentPost"
  /\ last.http = 404
  /\ last.subj \notin students
  /\ studAtt # {}

\* C10: markStaffAttendance without a date or a status, and
\* markStudentAttendance without an admission number, a date or a status,
\* answer 400 before any store call and leave every table unchanged.
C10_ValidationBeforeStore ==
  [][ /\ (/\ last'.op = "staffPost"
          /\ (Falsy(last'.date) \/ Falsy(last'.status)))
         => /\ last'.http = 400
            /\ last'.calls = 0
            /\ UNCHANGED store
      /\ (/\ last'.op = "studentPost"
          /\ (Falsy(last'.subj) \/ Falsy(last'.date) \/ Falsy(last'.status)))
         => /\ last'.http = 400
            /\ last'.calls = 0
            /\ UNCHANGED store
    ]_vars

C10_Witness ==
  /\ last.op = "staffPost"
  /\ last.http = 400
  /\ last.calls = 0
  /\ Falsy(last.status)
  /\ staffAtt # {}
  /\ studAtt # {}

\* C11: in markStaffAttendance a lookup that finds no day record leads to
\* the create path and 201; a failed lookup, insert or update is answered
\* 500 with the store's message and leaves the table unchanged; 'created'
\* or 'updated' is never answered when a store call failed.
C11_StoreErrorPropagated ==
  [][ (/\ last'.op = "staffPost"
       /\ ~Falsy(last'.date) /\ ~Falsy(last'.status))
      => /\ (/\ last'.failed = "none"
             /\ \A row \in staffAtt : row.date # last'.date)
            => (last'.http = 201 /\ last'.msg = "created")
         /\ last'.failed # "none"
            => /\ last'.http = 500
               /\ last'.msg = StoreMessage
               /\ staffAtt' = staffAtt
         /\ last'.http \in {200, 201}
            => /\ last'.failed = "none"
               /\ last'.msg \in {"created", "updated"}
               /\ staffAtt' # staffAtt
    ]_vars

C11_Witness ==
  /\ last.op = "staffPost"
  /\ last.http = 500
  /\ last.failed = "write"
  /\ last.msg = StoreMessage
  /\ \E row \in staffAtt : row.date = last.date /\ IsArray(row.staffStatus)

\* C12: when the Students lookup or the duplicate lookup of
\* markStudentAttendance fails with a store error, the request is answered
\* 500 with the store's message, not 404, and no row is inserted.
C12_StudentStoreErrorReported ==
  [][ (/\ last'.op = "studentPost"
       /\ ~Falsy(last'.subj) /\ ~Falsy(last'.date) /\ ~Falsy(last'.status)
       /\ last'.failed \in {"student", "check"})
      => /\ last'.http = 500
         /\ last'.msg = StoreMessage
         /\ studAtt' = studAtt
    ]_vars

\* C13: after a staff deletion answered 200, no day record holds an entry
\* of the deleted staff member, and the entries of every other staff member
\* are as they were.
C13_StaffDeleteCascades ==
  [][ (last'.op = "staffDelete" /\ last'.http = 200)
      => /\ \A row \in staffAtt' :
              FindIndex(Parsed(row.staffStatus), last'.subj) = 0
         /\ \A row \in staffAtt : \E after \in staffAtt' :
              /\ after.id = row.id
              /\ after.date = row.date
              /\ \A staffId \in StaffIds \ {last'.subj} :
                   LET before == Parsed(row.staffStatus)
                       now == Parsed(after.staffStatus)
                   IN {before[i] : i \in {k \in 1 .. Len(before) :
                                            before[k].id = staffId}}
                      = {now[i] : i \in {k \in 1 .. Len(now) :
                                           now[k].id = staffId}}
    ]_vars

\* C14: after a student deletion answered 200 the StudentAttendances table
\* holds no row of that student, and the rows of the other students are as
\* they were.
C14_StudentDeleteCascades ==
  [][ (last'.op = "studentDelete" /\ last'.http = 200)
      => /\ \A row \in studAtt' : row.admissionNumber # last'.subj
         /\ {row \in studAtt' : row.admissionNumber # last'.subj}
            = {row \in studAtt : row.admissionNumber # last'.subj}
    ]_vars

\* C15: an attendance row, once stored, stays in the table with its
\* admission number, date and status through every markStudentAttendance
\* and every summary query; a row leaves the table only in a deletion of
\* the student it belongs to.
C15_StudentRowImmutable ==
  [][ \A row \in studAtt :
        \/ row \in studAtt'
        \/ (last'.op = "studentDelete" /\ last'.subj = row.admissionNumber)
    ]_vars

C15_Witness ==
  /\ last.op = "studentGet"
  /\ last.http = 200
  /\ Cardinality(studAtt) >= 2
  /\ Cardinality(last.attendanceRecords) = 2

\* C16: in a staff summary, totalDays is the number of day records whose
\* statuses hold an entry for the staff member asked for, and daysAbsent is
\* the number of those whose entry is not "present": a day record without
\* an entry for that staff member adds to neither.
C16_TotalDaysCountsEntries ==
  [][ (last'.op = "staffGet" /\ last'.http = 200)
      => LET withEntry ==
               {record \in staffAtt :
                  \E i \in 1 .. Len(Parsed(record.staffStatus)) :
                     Parsed(record.staffStatus)[i].id = last'.subj}
             present ==
               {record \in withEntry :
                  \E i \in 1 .. Len(Parsed(record.staffStatus)) :
                     /\ Parsed(record.staffStatus)[i].id = last'.subj
                     /\ Parsed(record.staffStatus)[i].status = "present"}
         IN /\ last'.totalDays = Cardinality(withEntry)
            /\ last'.daysAbsent = Cardinality(withEntry \ present)
    ]_vars

\* C17: the weekly attendance rate of a staff summary and of a student
\* summary is the rate over the records dated in [now - 7 days, now] on a
\* Monday to Friday, and 0 when there is no such record: records dated on a
\* weekend, earlier than now - 7 days or later than now do not enter it.
C17_WeeklyRateWindow ==
  [][ LET Qualifies(date, now) ==
            /\ Timestamp(date) >= now - 14
            /\ Timestamp(date) <= now
            /\ GetDay(date) \in 1 .. 5
          IsRate(rate, num, den) ==
            IF den = 0 THEN rate.value = 0
            ELSE /\ 2 * (rate.value * den - 100 * Scale(rate.digits) * num) <= den
                 /\ 2 * (100 * Scale(rate.digits) * num - rate.value * den) <= den
          StaffEntries(staffId, now) ==
            {record \in staffAtt :
               /\ Qualifies(record.date, now)
               /\ \E i \in 1 .. Len(Parsed(record.staffStatus)) :
                     Parsed(record.staffStatus)[i].id = staffId}
          StaffPresent(staffId, now) ==
            {record \in StaffEntries(staffId, now) :
               \E i \in 1 .. Len(Parsed(record.staffStatus)) :
                  /\ Parsed(record.staffStatus)[i].id = staffId
                  /\ Parsed(record.staffStatus)[i].status = "present"}
          StudentRows(a, now) ==
            {row \in studAtt : row.admissionNumber = a /\ Qualifies(row.date, now)}
          StudentPresent(a, now) ==
            {row \in StudentRows(a, now) : row.status = "present"}
      IN /\ (last'.op = "staffGet" /\ last'.http = 200)
            => IsRate(last'.weeklyAttendanceRate,
                      Cardinality(StaffPresent(last'.subj, last'.now)),
                      Cardinality(StaffEntries(last'.subj, last'.now)))
         /\ (last'.op = "studentGet" /\ last'.http = 200)
            => IsRate(last'.rates.weeklyAttendanceRate,
                      Cardinality(StudentPresent(last'.subj, last'.now)),
                      Cardinality(StudentRows(last'.subj, last'.now)))
         /\ (last'.op = "studentGetAll" /\ last'.http = 200)
            => \A a \in DOMAIN last'.studentsAttendance :
                 IsRate(last'.studentsAttendance[a].weeklyAttendanceRate,
                        Cardinality(StudentPresent(a, last'.now)),
                        Cardinality(StudentRows(a, last'.now)))
    ]_vars

\* C18 as stated: the overall attendance rate of a summary is 0 exactly when
\* totalDays is 0, and otherwise is 100 * presentDays / totalDays within
\* rounding, for the staff and for the student summaries.
C18_OverallRateZeroIffNoDays ==
  [][ LET IsRate(rate, num, den) ==
            /\ 2 * (rate.value * den - 100 * Scale(rate.digits) * num) <= den
            /\ 2 * (100 * Scale(rate.digits) * num - rate.value * den) <= den
          Holds(rate, presentDays, totalDays) ==
            /\ rate.value = 0 <=> totalDays = 0
            /\ totalDays > 0 => IsRate(rate, presentDays, totalDays)
      IN /\ (last'.op = "staffGet" /\ last'.http = 200)
            => Holds(last'.overallAttendanceRate, last'.daysPresent,
                     last'.totalDays)
         /\ (last'.op = "studentGet" /\ last'.http = 200)
            => Holds(last'.rates.overallAttendanceRate, last'.rates.presentDays,
                     last'.rates.totalDays)
         /\ (last'.op = "studentGetAll" /\ last'.http = 200)
            => \A a \in DOMAIN last'.studentsAttendance :
                 Holds(last'.studentsAttendance[a].overallAttendanceRate,
                       last'.studentsAttendance[a].presentDays,
                       last'.studentsAttendance[a].totalDays)
    ]_vars

\* C18 amended: the overall attendance rate of a summary is 0 when totalDays
\* is 0, and otherwise is 100 * presentDays / totalDays within rounding
\* (so it is 0 as well when no day is a present day), for the staff and for
\* the student summaries.
C18_OverallRate ==
  [][ LET IsRate(rate, num, den) ==
            /\ 2 * (rate.value * den - 100 * Scale(rate.digits) * num) <= den
            /\ 2 * (100 * Scale(rate.digits) * num - rate.value * den) <= den
          Holds(rate, presentDays, totalDays) ==
            /\ totalDays = 0 => rate.value = 0
            /\ totalDays > 0 => IsRate(rate, presentDays, totalDays)
      IN /\ (last'.op = "staffGet" /\ last'.http = 200)
            => Holds(last'.overallAttendanceRate, last'.daysPresent,
                     last'.totalDays)
         /\ (last'.op = "studentGet" /\ last'.http = 200)
            => Holds(last'.rates.overallAttendanceRate, last'.rates.presentDays,
                     last'.rates.totalDays)
         /\ (last'.op = "studentGetAll" /\ last'.http = 200)
            => \A a \in DOMAIN last'.studentsAttendance :
                 Holds(last'.studentsAttendance[a].overallAttendanceRate,
                       last'.studentsAttendance[a].presentDays,
                       last'.studentsAttendance[a].totalDays)
    ]_vars

C18_Witness ==
  /\ last.op = "studentGet"
  /\ last.http = 200
  /\ last.rates.totalDays = 2
  /\ last.rates.presentDays = 0
  /\ last.rates.overallAttendanceRate.value = 0

\* C19: in the summary of a student whose rows all have the status
\* "present" or "absent", presentDays + absentDays = totalDays; in a staff
\* summary daysPresent + daysAbsent = totalDays, and when every day record
\* holds an entry for the staff member, daysPresent and daysAbsent are the
\* numbers of days the entry is "present" and "absent".
C19_PresentPlusAbsent ==
  [][ LET Binary(a) ==
            \A row \in studAtt :
               row.admissionNumber = a => row.status \in {"present", "absent"}
          EntryIs(record, staffId, status) ==
            \E i \in 1 .. Len(Parsed(record.staffStatus)) :
               /\ Parsed(record.staffStatus)[i].id = staffId
               /\ Parsed(record.staffStatus)[i].status = status
      IN /\ (last'.op = "studentGet" /\ last'.http = 200 /\ Binary(last'.subj))
            => last'.rates.presentDays + last'.rates.absentDays
               = last'.rates.totalDays
         /\ (last'.op = "studentGetAll" /\ last'.http = 200)
            => \A a \in DOMAIN last'.studentsAttendance :
                 Binary(a)
                 => last'.studentsAttendance[a].presentDays
                    + last'.studentsAttendance[a].absentDays
                    = last'.studentsAttendance[a].totalDays
         /\ (last'.op = "staffGet" /\ last'.http = 200)
            => /\ last'.daysPresent + last'.daysAbsent = last'.totalDays
               /\ (\A record \in staffAtt :
                      \/ EntryIs(record, last'.subj, "present")
                      \/ EntryIs(record, last'.subj, "absent"))
                  => /\ last'.daysPresent
                        = Cardinality({record \in staffAtt :
                                         EntryIs(record, last'.subj, "present")})
                     /\ last'.daysAbsent
                        = Cardinality({record \in staffAtt :
                                         EntryIs(record, last'.subj, "absent")})
    ]_vars

C19_Witness ==
  /\ last.op = "studentGet"
  /\ last.http = 200
  /\ last.rates.presentDays = 1
  /\ last.rates.absentDays = 1
  /\ last.rates.totalDays = 2
  /\ \E row \in studAtt :
        /\ row.admissionNumber = last.subj
        /\ row.status = "absent"
        /\ Timestamp(row.date) < OneWeekAgo(last.now)

\* C20: a staff summary and the all-staff listing over a table that holds
\* day records answer 200, whatever the shape of the stored status
\* collections: array, serialized array, unparseable string, null, or a
\* serialized value that is not an array.
C20_AggregationNeverFails ==
  [][ (last'.op \in {"staffGet", "staffGetAll"} /\ staffAtt # {})
      => last'.http = 200
    ]_vars

\* C21: a markStaffAttendance or markStudentAttendance request whose status
\* is not "present" or "absent" is answered 400 and leaves every table
\* unchanged, so every status a mark handler stores is "present" or
\* "absent".
C21_StatusIsBinary ==
  [][ (/\ last'.op \in {"staffPost", "studentPost"}
       /\ last'.status \notin {"present", "absent"})
      => /\ last'.http = 400
         /\ UNCHANGED store
    ]_vars

\* C22: a staff summary requested right after a markStaffAttendance that
\* answered 201 or 200 for the same staff member answers 200 and lists the
\* marked date with the marked status; a markStudentAttendance that answers
\* 201 adds exactly one row for the student, and a student summary
\* requested right after it answers 200 with totalDays equal to the number
\* of the student's rows and with the new row among its records.
C22_SummaryIsFresh ==
  [][ /\ (/\ last.op = "staffPost" /\ last.http \in {200, 201}
          /\ last'.op = "staffGet" /\ last'.subj = last.subj)
         => /\ last'.http = 200
            /\ \E day \in last'.attendance :
                  /\ day.date = last.date
                  /\ day.staffStatus = <<Entry(last.subj, last.status)>>
      /\ (last'.op = "studentPost" /\ last'.http = 201)
         => Cardinality({row \in studAtt' : row.admissionNumber = last'.subj})
            = Cardinality({row \in studAtt : row.admissionNumber = last'.subj}) + 1
      /\ (/\ last.op = "studentPost" /\ last.http = 201
          /\ last'.op = "studentGet" /\ last'.subj = last.subj)
         => /\ last'.http = 200
            /\ last'.rates.totalDays
               = Cardinality({row \in studAtt : row.admissionNumber = last.subj})
            /\ \E row \in last'.attendanceRecords :
                  /\ row.admissionNumber = last.subj
                  /\ row.date = last.date
                  /\ row.status = last.status
    ]_vars

C22_Witness ==
  /\ last.op = "staffGet"
  /\ last.http = 200
  /\ \E day \in last.attendance :
        /\ Len(day.staffStatus) = 1
        /\ \E record \in staffAtt :
              /\ record.date = day.date
              /\ record.staffStatus.kind = "string"
              /\ Len(record.staffStatus.val) = 2
  /\ studAtt # {}

\* C23: markStaffAttendance leaves every day record of another date as it
\* is, adds or changes at most one day record, and when it answers 200 the
\* table holds the same number of day records, with the same identities
\* and dates, as before.
C23_OnlyTheDayChanges ==
  [][ last'.op = "staffPost"
      => /\ {row \in staffAtt' : row.date # last'.date}
            = {row \in staffAtt : row.date # last'.date}
         /\ Cardinality(staffAtt' \ staffAtt) <= 1
         /\ last'.http = 200
            => /\ Cardinality(staffAtt') = Cardinality(staffAtt)
               /\ {<<row.id, row.date>> : row \in staffAtt'}
                  = {<<row.id, row.date>> : row \in staffAtt}
    ]_vars

C23_Witness ==
  /\ last.op = "staffPost"
  /\ last.http = 200
  /\ Cardinality(staffAtt) = 2
  /\ \E row \in staffAtt :
        /\ row.date = last.date
        /\ row.id = 1
        /\ row.staffStatus.kind = "string"

\* C24: every staff identifier that appears in the statuses of a day record
\* is the identifier of a staff member of the Staffs directory.
C24_EntriesBelongToStaff ==
  \A record \in staffAtt :
     \A i \in 1 .. Len(Parsed(record.staffStatus)) :
        Parsed(record.staffStatus)[i].id \in staffs

\* C25: a request to an attendance router whose Authorization header is
\* not "Bearer " followed by a token that verifies is answered 401 without
\* a store call and leaves every table unchanged; an attendance handler
\* runs, and a table changes, only for a request whose header carried a
\* verified token.
C25_NoStoreAccessWithoutToken ==
  [][ /\ (/\ last'.op = "auth"
          /\ last'.authorization # <<"Bearer", "valid">>)
         => /\ last'.http = 401
            /\ last'.calls = 0
            /\ UNCHANGED store
      /\ (last'.op # "auth" \/ store' # store)
         => /\ last.op = "auth"
            /\ last.authorization = <<"Bearer", "valid">>
    ]_vars

C25_Witness ==
  /\ last.op = "auth"
  /\ last.http = 401
  /\ last.authorization = <<"Bearer", "forged">>
  /\ staffAtt # {}
  /\ studAtt # {}

\* C26: GET /results/:admissionNumber for a caller whose role is not
\* student, or whose token carries another admission number than the one
\* requested, is answered 403 before any store call, and a result that is
\* returned is the caller's own.
C26_OnlyOwnResult ==
  [][ last'.op = "resultGet"
      => /\ (\/ last'.user.role # "student"
             \/ last'.user.admissionNumber # last'.subj)
            => /\ last'.http = 403
               /\ last'.calls = 0
               /\ "result" \notin DOMAIN last'
         /\ "result" \in DOMAIN last'
            => /\ last'.user.role = "student"
               /\ last'.result.admissionNumber = last'.user.admissionNumber
    ]_vars

C26_Witness ==
  /\ last.op = "resultGet"
  /\ last.http = 403
  /\ last.user = [role |-> "student", admissionNumber |-> "A1"]
  /\ last.subj = "A2"
  /\ \E row \in results : row.admissionNumber = "A2"

\* C27: a password changes only in a POST /auth/reset-password, and only
\* when the OTP table holds a row with the given e-mail address and the
\* given otp whose expiresAt is not in the past; when there is no such row
\* the request is answered 400 and leaves the Users and OTP tables
\* unchanged.
C27_ResetNeedsValidOtp ==
  [][ LET valid == {row \in otps : /\ row.email = last'.subj
                                   /\ row.otp = last'.otp
                                   /\ row.expiresAt >= clock}
      IN /\ users' # users
            => (clock' = clock /\ last'.op = "resetPassword" /\ valid # {})
         /\ (clock' = clock /\ last'.op = "resetPassword" /\ valid = {})
            => /\ last'.http = 400
               /\ users' = users
               /\ otps' = otps
    ]_vars

C27_Witness ==
  /\ last.op = "resetPassword"
  /\ last.http = 400
  /\ last.msg = "OTP has expired"
  /\ \E row \in otps :
        /\ row.email = last.subj
        /\ row.otp = last.otp
        /\ row.expiresAt < clock
  /\ \A u \in users : u.password = BcryptHash("initial")

\* C28: a reset-password that answers 200 leaves no OTP row for its e-mail
\* address, and a reset-password for an e-mail address without OTP rows, as
\* is a replay of the same e-mail address and otp, is answered 400 "Invalid
\* OTP" and leaves the passwords unchanged.
C28_OtpSingleUse ==
  [][ (clock' = clock /\ last'.op = "resetPassword")
      => /\ last'.http = 200
            => \A row \in otps' : row.email # last'.subj
         /\ (\A row \in otps : row.email # last'.subj)
            => /\ last'.http = 400
               /\ last'.msg = "Invalid OTP"
               /\ users' = users
         /\ (/\ last.op = "resetPassword" /\ last.http = 200
             /\ last'.subj = last.subj /\ last'.otp = last.otp)
            => /\ last'.http = 400
               /\ last'.msg = "Invalid OTP"
               /\ users' = users
    ]_vars

C28_Witness ==
  /\ last.op = "resetPassword"
  /\ last.http = 400
  /\ last.msg = "Invalid OTP"
  /\ \E u \in users : /\ u.email = last.subj
                      /\ u.password = BcryptHash("secret-one")
  /\ \A row \in otps : row.email # last.subj
  /\ otps # {}

\* C29: DELETE /exam-timetable/:class/:subject leaves the records of the
\* other classes unchanged; when the class has no record, or its record no
\* exam of the subject, it answers 404 and leaves ExamData unchanged;
\* otherwise the class's record loses every exam of the subject and keeps
\* its other exams, in their order.
C29_DeleteExamFrame ==
  [][ last'.op = "examDelete"
      => LET className == last'.subj
             subject == last'.subject
             Kept(exam) == exam.subject # subject
             own == {row \in exams : row.class = className}
             matching == {row \in own : \E i \in 1 .. Len(row.exams) :
                                            row.exams[i].subject = subject}
         IN /\ {row \in exams' : row.class # className}
               = {row \in exams : row.class # className}
            /\ matching = {} => (last'.http = 404 /\ exams' = exams)
            /\ matching # {}
               => /\ last'.http = 200
                  /\ {row \in exams' : row.class = className}
                     = {[row EXCEPT !.exams = SelectSeq(row.exams, Kept)] :
                          row \in own}
    ]_vars

C29_Witness ==
  /\ last.op = "examDelete"
  /\ last.http = 200
  /\ \E row \in exams : /\ row.class = last.subj
                        /\ Len(row.exams) = 1
                        /\ row.exams[1].subject # last.subject
  /\ \E row \in exams : /\ row.class # last.subj
                        /\ \E i \in 1 .. Len(row.exams) :
                              row.exams[i].subject = last.subject

====
